---- MODULE Spec2Model ----
(***************************************************************************)
(* A model of plan-to-ics: json_to_ics.py (schedule JSON -> iCalendar)     *)
(* and filter_events.py (faculty / group filter).                          *)
(*                                                                         *)
(* Strings are sequences of one-character strings; fixed text is kept as   *)
(* one fragment.                                                           *)
(* JSON values are records [ty, s, d]: the type, the characters of a       *)
(* string (or the decimal digits of a number), the fields of an object.    *)
(***************************************************************************)
EXTENDS Integers, Sequences, FiniteSets, TLC

(***************************************************************************)
(* Bounds of the model.                                                    *)
(***************************************************************************)
\* entries of the input mapping in the structural runs
MaxItems == 2
\* length of the free-text values
MaxTextLen == 2
\* ticks of the process clock during one run
MaxClock == 1
\* length of the group strings given to the filter
MaxGroupLen == 3

(***************************************************************************)
(* JSON values.                                                            *)
(***************************************************************************)
None == [ty |-> "none", s |-> <<>>, d |-> <<>>]
Str(s) == [ty |-> "str", s |-> s, d |-> <<>>]
Obj(d) == [ty |-> "dict", s |-> <<>>, d |-> d]

\* str(n) of a natural number
RECURSIVE Decimal(_)
Decimal(n) ==
    IF n < 10 THEN <<ToString(n)>> ELSE Decimal(n \div 10) \o <<ToString(n % 10)>>

\* a JSON number (a natural), kept by its decimal spelling
Num(n) == [ty |-> "num", s |-> Decimal(n), d |-> <<>>]

\* Python truthiness of a JSON value: None, "", 0 and {} are falsy
Truthy(v) ==
    CASE v.ty = "none" -> FALSE
      [] v.ty = "str" -> v.s # <<>>
      [] v.ty = "num" -> v.s # <<"0">>
      [] v.ty = "dict" -> DOMAIN v.d # {}
      [] OTHER -> TRUE

\* dict.get(key): the value, or None when the key is absent
Get(d, k) == IF k \in DOMAIN d THEN d[k] ELSE None

\* isinstance(v, dict)
IsDict(v) == v.ty = "dict"

(***************************************************************************)
(* Calendar arithmetic of datetime (proleptic Gregorian), in minutes.      *)
(***************************************************************************)
IsLeap(y) == (y % 4 = 0 /\ y % 100 # 0) \/ y % 400 = 0

DaysInMonth(y, m) ==
    IF m = 2 THEN (IF IsLeap(y) THEN 29 ELSE 28)
    ELSE IF m \in {4, 6, 9, 11} THEN 30 ELSE 31

\* days since 1970-01-01 of a civil date
DaysFromCivil(y, m, d) ==
    LET yy == IF m <= 2 THEN y - 1 ELSE y
        era == yy \div 400
        yoe == yy - era * 400
        mp == (m + 9) % 12
        doy == (153 * mp + 2) \div 5 + d - 1
        doe == yoe * 365 + yoe \div 4 - yoe \div 100 + doy
    IN era * 146097 + doe - 719468

\* the civil date <<y, m, d>> of a day number
CivilFromDays(z0) ==
    LET z == z0 + 719468
        era == z \div 146097
        doe == z - era * 146097
        yoe == (doe - doe \div 1460 + doe \div 36524 - doe \div 146096) \div 365
        doy == doe - (365 * yoe + yoe \div 4 - yoe \div 100)
        mp == (5 * doy + 2) \div 153
        d == doy - (153 * mp + 2) \div 5 + 1
        m == IF mp < 10 THEN mp + 3 ELSE mp - 9
        y == yoe + era * 400 + (IF m <= 2 THEN 1 ELSE 0)
    IN <<y, m, d>>

\* a datetime: wall-clock fields and tzinfo (none, a fixed offset, or a zone)
NoTz == [kind |-> "none", off |-> 0, name |-> ""]
FixedTz(off) == [kind |-> "fixed", off |-> off, name |-> ""]
ZoneTz(name) == [kind |-> "zone", off |-> 0, name |-> name]
UtcTz == FixedTz(0)

DateTime(y, mo, d, h, mi, s, tz) ==
    [y |-> y, mo |-> mo, d |-> d, h |-> h, mi |-> mi, s |-> s, tzinfo |-> tz]

\* the wall clock read as if it were UTC, in minutes since the epoch
WallMinutes(dt) == DaysFromCivil(dt.y, dt.mo, dt.d) * 1440 + dt.h * 60 + dt.mi

\* the datetime whose wall clock is `m` minutes since the epoch
FromWallMinutes(m, s, tz) ==
    LET days == m \div 1440
        rest == m - days * 1440
        c == CivilFromDays(days)
    IN DateTime(c[1], c[2], c[3], rest \div 60, rest % 60, s, tz)

(***************************************************************************)
(* Strings of characters.                                                  *)
(***************************************************************************)
\* str.replace(old, new), for a one-character `old`
RECURSIVE Replace(_, _, _)
Replace(s, old, new) ==
    IF s = <<>> THEN <<>>
    ELSE (IF Head(s) = old THEN new ELSE <<Head(s)>>) \o Replace(Tail(s), old, new)

\* sep.join(parts)
RECURSIVE Join(_, _)
Join(sep, parts) ==
    IF parts = <<>> THEN <<>>
    ELSE IF Len(parts) = 1 THEN parts[1]
    ELSE parts[1] \o sep \o Join(sep, Tail(parts))

DigitChars == {"0", "1", "2", "3", "4", "5", "6", "7", "8", "9"}

DigitVal(c) == CHOOSE n \in 0..9 : ToString(n) = c

\* the number spelled by the digits s[from..to]; -1 when one is no digit
RECURSIVE DigitsVal(_, _, _)
DigitsVal(s, from, to) ==
    IF from > to THEN 0
    ELSE IF s[to] \notin DigitChars THEN -1
    ELSE LET hi == DigitsVal(s, from, to - 1)
         IN IF hi < 0 THEN -1 ELSE hi * 10 + DigitVal(s[to])

\* n, zero-padded to `width` digits
RECURSIVE Pad(_, _)
Pad(n, width) ==
    IF width = 0 THEN <<>> ELSE Pad(n \div 10, width - 1) \o <<ToString(n % 10)>>

(***************************************************************************)
(* datetime.fromisoformat, datetime.strftime, tzinfo.                      *)
(***************************************************************************)
ParseError == [ok |-> FALSE, dt |-> DateTime(0, 0, 0, 0, 0, 0, NoTz)]

\* datetime.fromisoformat: YYYY-MM-DD[*HH:MM:SS[(+|-)HH:MM]], anything else
\* is a ValueError
FromIso(s) ==
    LET n == Len(s)
        y == DigitsVal(s, 1, 4)
        mo == DigitsVal(s, 6, 7)
        d == DigitsVal(s, 9, 10)
        hasTime == n >= 19
        h == IF hasTime THEN DigitsVal(s, 12, 13) ELSE 0
        mi == IF hasTime THEN DigitsVal(s, 15, 16) ELSE 0
        sec == IF hasTime THEN DigitsVal(s, 18, 19) ELSE 0
        hasOff == n = 25
        oh == IF hasOff THEN DigitsVal(s, 21, 22) ELSE 0
        om == IF hasOff THEN DigitsVal(s, 24, 25) ELSE 0
        dateOk == /\ s[5] = "-" /\ s[8] = "-"
                  /\ y >= 1 /\ mo \in 1..12
                  /\ d >= 1 /\ d <= DaysInMonth(y, mo)
        timeOk == hasTime =>
                  /\ s[14] = ":" /\ s[17] = ":"
                  /\ h \in 0..23 /\ mi \in 0..59 /\ sec \in 0..59
        offOk == hasOff =>
                  /\ s[20] \in {"+", "-"} /\ s[23] = ":"
                  /\ oh \in 0..23 /\ om \in 0..59
        off == (IF hasOff /\ s[20] = "-" THEN -1 ELSE 1) * (oh * 60 + om)
    IN IF n \notin {10, 19, 25} THEN ParseError
       ELSE IF ~(dateOk /\ timeOk /\ offOk) THEN ParseError
       ELSE [ok |-> TRUE,
             dt |-> DateTime(y, mo, d, h, mi, sec,
                             IF hasOff THEN FixedTz(off) ELSE NoTz)]

\* dt.strftime("%Y%m%dT%H%M%S")
Strftime(dt) ==
    Pad(dt.y, 4) \o Pad(dt.mo, 2) \o Pad(dt.d, 2) \o <<"T">>
        \o Pad(dt.h, 2) \o Pad(dt.mi, 2) \o Pad(dt.s, 2)

\* dt.strftime("%Y%m%dT%H%M%SZ")
StrftimeZ(dt) == Strftime(dt) \o <<"Z">>

\* the zone identifiers ZoneInfo() knows in this model
ValidZones == {"Europe/Warsaw", "UTC", "Asia/Tokyo"}

\* the day number of the last Sunday of month m of year y
LastSunday(y, m) ==
    LET last == DaysFromCivil(y, m, DaysInMonth(y, m))
    IN last - ((last + 4) % 7)

\* the instants (UTC minutes) at which Europe/Warsaw starts and ends daylight
\* saving time in year y: 01:00 UTC on the last Sunday of March and October
DstStart(y) == LastSunday(y, 3) * 1440 + 60
DstEnd(y) == LastSunday(y, 10) * 1440 + 60

\* tz.utcoffset() of an instant given in UTC minutes (tz.fromutc)
ZoneOffsetAtUtc(name, u, y) ==
    CASE name = "Europe/Warsaw" ->
            IF u >= DstStart(y) /\ u < DstEnd(y) THEN 120 ELSE 60
      [] name = "Asia/Tokyo" -> 540
      [] OTHER -> 0

\* tz.utcoffset() of a wall clock (fold = 0): a transition applies from the
\* wall time transition + max(offset before, offset after) on, so a wall time
\* in a gap takes the offset before the gap and one in an overlap the first
\* of its two offsets
ZoneOffsetAtWall(name, w, y) ==
    CASE name = "Europe/Warsaw" ->
            IF w >= DstStart(y) + 120 /\ w < DstEnd(y) + 120 THEN 120 ELSE 60
      [] name = "Asia/Tokyo" -> 540
      [] OTHER -> 0

\* dt.utcoffset(), in minutes, of an aware datetime
UtcOffset(dt) ==
    IF dt.tzinfo.kind = "zone"
    THEN ZoneOffsetAtWall(dt.tzinfo.name, WallMinutes(dt), dt.y)
    ELSE dt.tzinfo.off

\* dt.replace(tzinfo=tz)
ReplaceTz(dt, tz) == [dt EXCEPT !.tzinfo = tz]

\* dt.astimezone(timezone.utc)
AsUtc(dt) == FromWallMinutes(WallMinutes(dt) - UtcOffset(dt), dt.s, UtcTz)

\* dt.astimezone(ZoneInfo(name)) of a datetime in UTC
AsZone(dtUtc, name) ==
    LET u == WallMinutes(dtUtc)
    IN FromWallMinutes(u + ZoneOffsetAtUtc(name, u, dtUtc.y), dtUtc.s, ZoneTz(name))

(***************************************************************************)
(* json_to_ics.py: the pure functions.                                     *)
(***************************************************************************)
APPLE_PRODID == <<"-//pz//json-to-ics//EN">>

LowerLetters == <<"a", "b", "c", "d", "e", "f", "g", "h", "i", "j", "k", "l", "m",
                  "n", "o", "p", "q", "r", "s", "t", "u", "v", "w", "x", "y", "z">>
UpperLetters == <<"A", "B", "C", "D", "E", "F", "G", "H", "I", "J", "K", "L", "M",
                  "N", "O", "P", "Q", "R", "S", "T", "U", "V", "W", "X", "Y", "Z">>

\* str.upper() and str.lower()
Upper(s) ==
    [i \in 1..Len(s) |->
        IF \E j \in 1..26 : LowerLetters[j] = s[i]
        THEN UpperLetters[CHOOSE j \in 1..26 : LowerLetters[j] = s[i]]
        ELSE s[i]]
Lower(s) ==
    [i \in 1..Len(s) |->
        IF \E j \in 1..26 : UpperLetters[j] = s[i]
        THEN LowerLetters[CHOOSE j \in 1..26 : UpperLetters[j] = s[i]]
        ELSE s[i]]

\* a line of the document: NAME[;TZID=param]:value
Line(name, value) == [name |-> name, param |-> <<>>, value |-> value]
LineTz(name, tzid, value) == [name |-> name, param |-> tzid, value |-> value]

\* the result of a call: a value, or an exception raised
Ok(v) == [raised |-> FALSE, val |-> v]
Raise == [raised |-> TRUE, val |-> <<>>]

\* ZoneInfo(name) or, for an unknown identifier, ZoneInfo("UTC")
ZoneOrUtc(name) == IF name \in ValidZones THEN name ELSE "UTC"

\* dt_str.replace("Z", "+00:00")
ReplaceZ(dt_str) == Replace(dt_str, "Z", <<"+", "0", "0", ":", "0", "0">>)

\* if dt.tzinfo is None: dt = dt.replace(tzinfo=tz)
WithZone(dt, tz) == IF dt.tzinfo.kind = "none" THEN ReplaceTz(dt, ZoneTz(tz)) ELSE dt

parse_iso_with_tzid(dt_str, tz, tzid) ==
    LET p == FromIso(ReplaceZ(dt_str))
    IN IF ~p.ok THEN Raise
       ELSE Ok([value |-> Strftime(WithZone(p.dt, tz)), tzid |-> tzid])

\* parse_iso_as_utc_z without astimezone(timezone.utc)
parse_iso_as_utc_z_unconverted(dt_str, naive_tz) ==
    LET p == FromIso(ReplaceZ(dt_str))
    IN IF ~p.ok THEN Raise
       ELSE Ok(StrftimeZ(WithZone(p.dt, naive_tz)))

parse_iso_as_utc_z(dt_str, naive_tz) ==
    LET p == FromIso(ReplaceZ(dt_str))
    IN IF ~p.ok THEN Raise
       ELSE Ok(StrftimeZ(AsUtc(WithZone(p.dt, naive_tz))))

parse_date_as_utc_z(date_str, naive_tz) ==
    LET p == FromIso(ReplaceZ(date_str))
        q == FromIso(date_str)
    IN IF p.ok THEN Ok(StrftimeZ(AsUtc(WithZone(p.dt, naive_tz))))
       ELSE IF ~q.ok THEN Raise
       ELSE Ok(StrftimeZ(ReplaceTz(q.dt, ZoneTz(naive_tz))))

\* int(interval) of a JSON number or a string of digits
IntOf(v) ==
    IF v.ty \in {"num", "str"} /\ v.s # <<>> /\ DigitsVal(v.s, 1, Len(v.s)) >= 0
    THEN Ok(DigitsVal(v.s, 1, Len(v.s)))
    ELSE Raise

\* returns Ok(<<>>) for None, Ok(<<rule>>) for a rule
build_rrule(event, naive_tz) ==
    LET r == Get(event, "rrule") IN
    IF ~IsDict(r) THEN Ok(<<>>)
    ELSE
    LET freq == Get(r.d, "freq")
        interval == Get(r.d, "interval")
        until == Get(r.d, "until")
        n == IF Truthy(interval) THEN IntOf(interval) ELSE Raise
        u == IF Truthy(until) /\ until.ty = "str"
             THEN parse_date_as_utc_z(until.s, naive_tz) ELSE Raise
        parts ==
            (IF Truthy(freq) THEN <<<<"FREQ=">> \o Upper(freq.s)>> ELSE <<>>)
            \o (IF Truthy(interval) /\ ~n.raised
                THEN <<<<"INTERVAL=">> \o Decimal(n.val)>> ELSE <<>>)
            \o (IF Truthy(until) /\ ~u.raised
                THEN <<<<"UNTIL=">> \o u.val>> ELSE <<>>)
    IN IF \/ Truthy(freq) /\ freq.ty # "str"
          \/ Truthy(interval) /\ n.raised
          \/ Truthy(until) /\ u.raised
       THEN Raise
       ELSE IF parts # <<>> THEN Ok(<<Join(<<";">>, parts)>>) ELSE Ok(<<>>)

\* escape_text with the backslash replaced last: the backslashes the other
\* replacements put in are doubled
escape_text_backslash_last(value) ==
    Replace(Replace(Replace(Replace(value,
        ";", <<"\\", ";">>),
        ",", <<"\\", ",">>),
        "\n", <<"\\", "n">>),
        "\\", <<"\\", "\\">>)

escape_text(value) ==
    Replace(Replace(Replace(Replace(value,
        "\\", <<"\\", "\\">>),
        ";", <<"\\", ";">>),
        ",", <<"\\", ",">>),
        "\n", <<"\\", "n">>)

build_vtimezone(tzid, tz) ==
    << Line("BEGIN", <<"VTIMEZONE">>),
       Line("TZID", <<tzid>>),
       Line("BEGIN", <<"STANDARD">>),
       Line("DTSTART", <<"20230326T030000">>),
       Line("TZOFFSETFROM", <<"+0100">>),
       Line("TZOFFSETTO", <<"+0100">>),
       Line("TZNAME", <<"CET">>),
       Line("END", <<"STANDARD">>),
       Line("BEGIN", <<"DAYLIGHT">>),
       Line("DTSTART", <<"20230326T020000">>),
       Line("TZOFFSETFROM", <<"+0100">>),
       Line("TZOFFSETTO", <<"+0200">>),
       Line("TZNAME", <<"CEST">>),
       Line("END", <<"DAYLIGHT">>),
       Line("END", <<"VTIMEZONE">>) >>

\* datetime.now(timezone.utc) when the process clock reads `clk`
Now(clk) ==
    FromWallMinutes(WallMinutes(DateTime(2026, 1, 1, 0, 0, 0, UtcTz)) + clk, 0, UtcTz)

\* value or "" : the string of a text field, empty when absent or falsy
TextOr(v, default) == IF Truthy(v) THEN v.s ELSE default

\* the DTSTART / DTEND line of build_event: Ok(<<>>) when the field is falsy
TimeLine(name, v, naive_tz, use_tzid, tzid) ==
    IF ~Truthy(v) THEN Ok(<<>>)
    ELSE IF v.ty # "str" THEN Raise
    ELSE IF use_tzid THEN
        LET t == parse_iso_with_tzid(v.s, naive_tz, tzid)
        IN IF t.raised THEN Raise
           ELSE Ok(<<LineTz(name, t.val.tzid, t.val.value)>>)
    ELSE
        LET t == parse_iso_as_utc_z(v.s, naive_tz)
        IN IF t.raised THEN Raise ELSE Ok(<<Line(name, t.val)>>)

\* build_event, the changed order a slip would give: LOCATION ahead of SUMMARY
event_lines_location_first(uid, dtstamp, start, end, summary, room, description_parts, rrule) ==
    <<Line("BEGIN", <<"VEVENT">>), Line("UID", uid), Line("DTSTAMP", dtstamp)>>
    \o start
    \o end
    \o (IF room # <<>> THEN <<Line("LOCATION", escape_text(room))>> ELSE <<>>)
    \o <<Line("SUMMARY", escape_text(summary))>>
    \o (IF description_parts # <<>>
        THEN <<Line("DESCRIPTION", escape_text(Join(<<"\n">>, description_parts)))>>
        ELSE <<>>)
    \o (IF rrule # <<>> THEN <<Line("RRULE", rrule[1])>> ELSE <<>>)
    \o <<Line("END", <<"VEVENT">>)>>

\* build_event: the lines appended to the block, in the order of the appends
event_lines(uid, dtstamp, start, end, summary, room, description_parts, rrule) ==
    <<Line("BEGIN", <<"VEVENT">>), Line("UID", uid), Line("DTSTAMP", dtstamp)>>
    \o start
    \o end
    \o <<Line("SUMMARY", escape_text(summary))>>
    \o (IF room # <<>> THEN <<Line("LOCATION", escape_text(room))>> ELSE <<>>)
    \o (IF description_parts # <<>>
        THEN <<Line("DESCRIPTION", escape_text(Join(<<"\n">>, description_parts)))>>
        ELSE <<>>)
    \o (IF rrule # <<>> THEN <<Line("RRULE", rrule[1])>> ELSE <<>>)
    \o <<Line("END", <<"VEVENT">>)>>

build_event(uid_namespace, key, event, naive_tz, use_tzid, tzid, clk) ==
    LET uid == key \o <<"@">> \o uid_namespace
        dtstamp == StrftimeZ(Now(clk))
        start == TimeLine("DTSTART", Get(event, "start"), naive_tz, use_tzid, tzid)
        end == TimeLine("DTEND", Get(event, "end"), naive_tz, use_tzid, tzid)
        title == IF Truthy(Get(event, "eventType")) THEN Get(event, "eventType").s
                 ELSE TextOr(Get(event, "title"), <<"Zajecia">>)
        group == TextOr(Get(event, "group"), <<>>)
        instructor == TextOr(Get(event, "instructor"), <<>>)
        faculty == TextOr(Get(event, "faculty"), <<>>)
        room == TextOr(Get(event, "room"), <<>>)
        summary == title \o <<" (">> \o group \o <<")">>
        description_parts ==
            (IF instructor # <<>> THEN <<<<"Prowadzacy: ">> \o instructor>> ELSE <<>>)
            \o (IF faculty # <<>> THEN <<<<"Faculty: ">> \o faculty>> ELSE <<>>)
        rrule == build_rrule(event, naive_tz)
    IN IF start.raised \/ end.raised \/ rrule.raised THEN Raise
       ELSE Ok(event_lines(uid, dtstamp, start.val, end.val, summary, room,
                           description_parts, rrule.val))

\* the lines write_ics joins into the content of the file
RECURSIVE Flatten(_)
Flatten(blocks) ==
    IF blocks = <<>> THEN <<>> ELSE Head(blocks) \o Flatten(Tail(blocks))

\* write_ics with the timezone block extended after the events
ics_lines_vtimezone_last(calendar_name, events, vtimezone) ==
    << Line("BEGIN", <<"VCALENDAR">>),
       Line("VERSION", <<"2.0">>),
       Line("PRODID", APPLE_PRODID),
       Line("CALSCALE", <<"GREGORIAN">>),
       Line("METHOD", <<"PUBLISH">>),
       Line("X-WR-CALNAME", escape_text(calendar_name)),
       Line("NAME", escape_text(calendar_name)) >>
    \o Flatten(events)
    \o (IF vtimezone # <<>> THEN vtimezone ELSE <<>>)
    \o <<Line("END", <<"VCALENDAR">>)>>

ics_lines(calendar_name, events, vtimezone) ==
    << Line("BEGIN", <<"VCALENDAR">>),
       Line("VERSION", <<"2.0">>),
       Line("PRODID", APPLE_PRODID),
       Line("CALSCALE", <<"GREGORIAN">>),
       Line("METHOD", <<"PUBLISH">>),
       Line("X-WR-CALNAME", escape_text(calendar_name)),
       Line("NAME", escape_text(calendar_name)) >>
    \o (IF vtimezone # <<>> THEN vtimezone ELSE <<>>)
    \o Flatten(events)
    \o <<Line("END", <<"VCALENDAR">>)>>

\* ensure_dict: the (key, value) pairs of a mapping, or of a list under str(i)
ensure_dict(data) ==
    IF data.kind = "dict" THEN Ok(data.entries)
    ELSE IF data.kind = "list" THEN
        Ok([i \in 1..Len(data.entries) |-> <<Decimal(i - 1), data.entries[i][2]>>])
    ELSE Raise

\* os.path.abspath(path) in the working directory cwd
abspath(cwd, path) == IF path[1] = "/" THEN path ELSE cwd \o <<"/">> \o path

\* uuid.uuid5(uuid.NAMESPACE_URL, name).hex: a digest of the name and of
\* nothing else
uuid5_hex(name) == <<"uuid5(">> \o name \o <<")">>

(***************************************************************************)
(* filter_events.py: the pure functions.                                   *)
(***************************************************************************)
Whitespace == {" ", "\n"}

\* str.strip()
RECURSIVE LStrip(_)
LStrip(s) == IF s # <<>> /\ Head(s) \in Whitespace THEN LStrip(Tail(s)) ELSE s
RECURSIVE RStrip(_)
RStrip(s) ==
    IF s # <<>> /\ s[Len(s)] \in Whitespace THEN RStrip(SubSeq(s, 1, Len(s) - 1)) ELSE s
Strip(s) == RStrip(LStrip(s))

\* str.split(sep), for a one-character sep: the parts between the separators
RECURSIVE Split(_, _)
Split(s, sep) ==
    IF \A i \in 1..Len(s) : s[i] # sep THEN <<s>>
    ELSE LET i == CHOOSE j \in 1..Len(s) :
                    s[j] = sep /\ \A k \in 1..(j - 1) : s[k] # sep
         IN <<SubSeq(s, 1, i - 1)>> \o Split(SubSeq(s, i + 1, Len(s)), sep)

\* the parts that are not empty once stripped
RECURSIVE StrippedParts(_)
StrippedParts(parts) ==
    IF parts = <<>> THEN <<>>
    ELSE (IF Strip(Head(parts)) # <<>> THEN <<Strip(Head(parts))>> ELSE <<>>)
         \o StrippedParts(Tail(parts))

\* main, lines 122-125: the (key, value) pairs of the mapping, or of the list
\* under str(i)
source_items(data) ==
    IF data.kind = "list"
    THEN [i \in 1..Len(data.entries) |-> <<Decimal(i - 1), data.entries[i][2]>>]
    ELSE data.entries

tokenize_groups(raw) ==
    IF raw = <<>> THEN <<>>
    ELSE StrippedParts(Split(Replace(raw, ",", <<"/">>), "/"))

\* should_include_event without the rule for lectures
should_include_event_groups_only(event, selected_faculty, lk_group, l_group, p_group) ==
    LET faculty == Get(event, "faculty")
        group_value == Strip(TextOr(Get(event, "group"), <<>>))
        tokens == tokenize_groups(group_value)
        wanted == {Lower(lk_group), Lower(l_group), Lower(p_group)}
    IN IF faculty # Str(selected_faculty) THEN FALSE
       ELSE IF tokens = <<>> THEN FALSE
       ELSE \E i \in 1..Len(tokens) : Lower(tokens[i]) \in wanted

should_include_event(event, selected_faculty, lk_group, l_group, p_group) ==
    LET faculty == Get(event, "faculty")
        group_value == Strip(TextOr(Get(event, "group"), <<>>))
        tokens == tokenize_groups(group_value)
        wanted == {Lower(lk_group), Lower(l_group), Lower(p_group)}
    IN IF faculty # Str(selected_faculty) THEN FALSE
       ELSE IF tokens = <<>> THEN FALSE
       ELSE IF \E i \in 1..Len(tokens) : Upper(tokens[i]) = <<"W">> THEN TRUE
       ELSE \E i \in 1..Len(tokens) : Lower(tokens[i]) \in wanted

(***************************************************************************)
(* json_to_ics.main as a state machine.                                    *)
(***************************************************************************)
VARIABLES
    args,           \* the parsed command line
    cwd,            \* the working directory of the process
    infile,         \* the input file: [kind, entries]
    pc,             \* the position of main
    items,          \* the (key, value) pairs of ensure_dict(data)
    idx,            \* position of the loop over items.items()
    uid_namespace,
    naive_tz,
    vtimezone,      \* <<>> is None
    events,         \* the event blocks built so far
    clock,          \* the process clock
    outfile,        \* the output file: [written, lines]
    writes,         \* number of writes to the output path
    stdout,         \* the event count printed, -1 when nothing was printed
    stderr,         \* the messages printed to stderr
    status,         \* the exit status of the process, -1 while it runs
    fargs,          \* filter_events: the parsed command line
    finfile,        \* filter_events: the input file or URL body, [kind, entries]
    fdata,          \* filter_events: the loaded mapping, (key, value) pairs
    fpc,            \* filter_events: the position of main
    fidx,           \* filter_events: position of the loop
    filtered,       \* filter_events: the (key, value) pairs kept
    included_count,
    fsaved,         \* filter_events: what save_json wrote, [written, entries]
    fstatus         \* filter_events: exit status, -1 while it runs

icsVars == <<args, cwd, infile, pc, items, idx, uid_namespace, naive_tz, vtimezone,
             events, clock, outfile, writes, stdout, stderr, status>>
filterVars == <<fargs, finfile, fdata, fpc, fidx, filtered, included_count, fsaved, fstatus>>
vars == <<icsVars, filterVars>>

\* main, lines 228-230: the input path does not exist
InputNotFound ==
    /\ pc = "start"
    /\ infile.kind = "missing"
    /\ stderr' = Append(stderr, "Input not found")
    /\ status' = 1
    /\ pc' = "exit"
    /\ UNCHANGED <<args, cwd, infile, items, idx, uid_namespace, naive_tz, vtimezone,
                   events, clock, outfile, writes, stdout, filterVars>>

\* main, lines 232-237: json.load or ensure_dict raises
LoadFailed ==
    /\ pc = "start"
    /\ infile.kind # "missing"
    /\ infile.kind = "malformed" \/ ensure_dict(infile).raised
    /\ stderr' = Append(stderr, "Failed to load input JSON")
    /\ status' = 1
    /\ pc' = "exit"
    /\ UNCHANGED <<args, cwd, infile, items, idx, uid_namespace, naive_tz, vtimezone,
                   events, clock, outfile, writes, stdout, filterVars>>

\* Loaded with the namespace derived from the output path
Loaded_namespace_from_output ==
    /\ pc = "start"
    /\ infile.kind \notin {"missing", "malformed"}
    /\ ~ensure_dict(infile).raised
    /\ items' = ensure_dict(infile).val
    /\ uid_namespace' = uuid5_hex(abspath(cwd, args.output))
    /\ naive_tz' = ZoneOrUtc(args.tz)
    /\ stderr' = IF args.tz \in ValidZones THEN stderr
                 ELSE Append(stderr, "Invalid timezone, falling back to UTC")
    /\ vtimezone' = IF args.use_tzid THEN build_vtimezone(<<args.tz>>, ZoneOrUtc(args.tz))
                    ELSE <<>>
    /\ events' = <<>>
    /\ idx' = 1
    /\ pc' = "loop"
    /\ UNCHANGED <<args, cwd, infile, clock, outfile, writes, stdout, status, filterVars>>

\* main, lines 232-253: the input is loaded; namespace, zone and VTIMEZONE
Loaded ==
    /\ pc = "start"
    /\ infile.kind \notin {"missing", "malformed"}
    /\ ~ensure_dict(infile).raised
    /\ items' = ensure_dict(infile).val
    /\ uid_namespace' = uuid5_hex(abspath(cwd, args.input))
    /\ naive_tz' = ZoneOrUtc(args.tz)
    /\ stderr' = IF args.tz \in ValidZones THEN stderr
                 ELSE Append(stderr, "Invalid timezone, falling back to UTC")
    /\ vtimezone' = IF args.use_tzid THEN build_vtimezone(<<args.tz>>, ZoneOrUtc(args.tz))
                    ELSE <<>>
    /\ events' = <<>>
    /\ idx' = 1
    /\ pc' = "loop"
    /\ UNCHANGED <<args, cwd, infile, clock, outfile, writes, stdout, status, filterVars>>

\* main, lines 254-256: an entry that is no dict is skipped
SkipEntry ==
    /\ pc = "loop"
    /\ idx <= Len(items)
    /\ ~IsDict(items[idx][2])
    /\ idx' = idx + 1
    /\ UNCHANGED <<args, cwd, infile, pc, items, uid_namespace, naive_tz, vtimezone,
                   events, clock, outfile, writes, stdout, stderr, status, filterVars>>

\* the block build_event returns for the current entry at clock reading clk
CurrentEvent(clk) ==
    build_event(uid_namespace, items[idx][1], items[idx][2].d, naive_tz,
                args.use_tzid, <<args.tz>>, clk)

\* main, line 257: build_event returns a block, which is appended
AppendEvent ==
    /\ pc = "loop"
    /\ idx <= Len(items)
    /\ IsDict(items[idx][2])
    /\ \E clk \in clock..(IF clock < MaxClock THEN clock + 1 ELSE clock) :
        /\ ~CurrentEvent(clk).raised
        /\ events' = Append(events, CurrentEvent(clk).val)
        /\ clock' = clk
    /\ idx' = idx + 1
    /\ UNCHANGED <<args, cwd, infile, pc, items, uid_namespace, naive_tz, vtimezone,
                   outfile, writes, stdout, stderr, status, filterVars>>

\* EventAbort with the blocks built so far written on the way out
EventAbort_writing_partial ==
    /\ pc = "loop"
    /\ idx <= Len(items)
    /\ IsDict(items[idx][2])
    /\ CurrentEvent(clock).raised
    /\ stderr' = Append(stderr, "Traceback")
    /\ outfile' = [written |-> TRUE,
                   lines |-> ics_lines(args.calendar_name, events, vtimezone)]
    /\ writes' = writes + 1
    /\ status' = 1
    /\ pc' = "exit"
    /\ UNCHANGED <<args, cwd, infile, items, idx, uid_namespace, naive_tz, vtimezone,
                   events, clock, stdout, filterVars>>

\* main, line 257: build_event raises; nothing catches it, the interpreter
\* prints the traceback and exits with status 1
EventAbort ==
    /\ pc = "loop"
    /\ idx <= Len(items)
    /\ IsDict(items[idx][2])
    /\ CurrentEvent(clock).raised
    /\ stderr' = Append(stderr, "Traceback")
    /\ status' = 1
    /\ pc' = "exit"
    /\ UNCHANGED <<args, cwd, infile, items, idx, uid_namespace, naive_tz, vtimezone,
                   events, clock, outfile, writes, stdout, filterVars>>

\* main, lines 259-262, and write_ics
WriteIcs ==
    /\ pc = "loop"
    /\ idx > Len(items)
    /\ outfile' = [written |-> TRUE,
                   lines |-> ics_lines(args.calendar_name, events, vtimezone)]
    /\ writes' = writes + 1
    /\ stdout' = Len(events)
    /\ status' = 0
    /\ pc' = "exit"
    /\ UNCHANGED <<args, cwd, infile, items, idx, uid_namespace, naive_tz, vtimezone,
                   events, clock, stderr, filterVars>>

Next ==
    \/ InputNotFound
    \/ LoadFailed
    \/ Loaded
    \/ SkipEntry
    \/ AppendEvent
    \/ EventAbort
    \/ WriteIcs

(***************************************************************************)
(* The inputs of a run.                                                    *)
(***************************************************************************)
\* the strings over alphabet of length at most n
RECURSIVE StringsUpTo(_, _)
StringsUpTo(alphabet, n) ==
    IF n = 0 THEN {<<>>}
    ELSE LET shorter == StringsUpTo(alphabet, n - 1)
         IN shorter \cup {Append(t, c) : t \in shorter, c \in alphabet}

\* free text: a letter and the four characters escape_text rewrites
TextChars == {"a", "\\", ";", ",", "\n"}
Texts == StringsUpTo(TextChars, MaxTextLen)

\* the ISO spelling of a date, and of a date with a time
IsoDate(y, mo, d) == Pad(y, 4) \o <<"-">> \o Pad(mo, 2) \o <<"-">> \o Pad(d, 2)
IsoTime(h, mi, sec) == Pad(h, 2) \o <<":">> \o Pad(mi, 2) \o <<":">> \o Pad(sec, 2)

\* days of 2025: the start and the end of daylight saving time in
\* Europe/Warsaw, a summer day, and the two days around the new year
SampleDays == {<<2025, 3, 30>>, <<2025, 10, 26>>, <<2025, 10, 6>>,
               <<2025, 12, 31>>, <<2025, 1, 1>>}
SampleTimes == {<<0, 30, 0>>, <<1, 59, 59>>, <<2, 0, 0>>, <<2, 30, 0>>,
                <<2, 59, 59>>, <<3, 0, 0>>, <<9, 15, 0>>, <<23, 30, 7>>}

\* naive timestamps: with a time and date-only
NaiveStamps ==
    {IsoDate(d[1], d[2], d[3]) \o <<"T">> \o IsoTime(t[1], t[2], t[3]) :
        d \in SampleDays, t \in SampleTimes}
    \cup {IsoDate(d[1], d[2], d[3]) : d \in SampleDays}

\* timestamps with a trailing Z or a numeric offset
AwareStamps ==
    {IsoDate(d[1], d[2], d[3]) \o <<"T">> \o IsoTime(t[1], t[2], t[3]) \o suffix :
        d \in {<<2025, 10, 6>>, <<2025, 1, 1>>},
        t \in {<<9, 15, 0>>, <<23, 30, 7>>},
        suffix \in {<<"Z">>,
                    <<"+", "0", "2", ":", "0", "0">>,
                    <<"+", "0", "5", ":", "3", "0">>,
                    <<"-", "0", "4", ":", "0", "0">>}}

\* strings fromisoformat rejects: no timestamp at all, a month 13, an hour
\* 24, a Z between date and time (which the replacement of Z breaks)
MalformedStamps ==
    { <<"x">>,
      IsoDate(2025, 13, 1) \o <<"T">> \o IsoTime(9, 15, 0),
      IsoDate(2025, 10, 6) \o <<"T">> \o IsoTime(24, 0, 0),
      IsoDate(2025, 10, 6) \o <<"Z">> \o IsoTime(9, 15, 0) }

Stamps == NaiveStamps \cup AwareStamps \cup MalformedStamps \cup {<<>>}

\* a record with the given fields; a field whose value is Absent is left out
Absent == [ty |-> "absent", s |-> <<>>, d |-> <<>>]
Record(fields) ==
    Obj([k \in {f \in DOMAIN fields : fields[f] # Absent} |-> fields[k]])

OptText(S) == {Absent} \cup {Str(t) : t \in S}

AStamp == IsoDate(2025, 10, 6) \o <<"T">> \o IsoTime(9, 15, 0)

\* records that vary the timestamps
TimeRecords ==
    {Record([start |-> Str(t), end |-> Absent]) : t \in Stamps}
    \cup {Record([start |-> a, end |-> Str(t)]) :
            a \in {Absent, Str(AStamp)}, t \in AwareStamps \cup MalformedStamps}
    \cup {Record([start |-> a, end |-> Str(t)]) :
            a \in {Absent, Str(AStamp)},
            t \in {IsoDate(2025, 3, 30) \o <<"T">> \o IsoTime(2, 30, 0),
                   IsoDate(2025, 10, 6)}}

\* records that vary the free text
SmallTexts == {<<>>, <<"a">>, <<"\\", ",">>}
TextRecords ==
    {Record([eventType |-> e, title |-> t, group |-> g]) :
        e \in OptText(Texts), t \in OptText({<<"a", ";">>}),
        g \in OptText({<<>>, <<"W">>, <<"\\", ",">>})}
    \cup {Record([room |-> r, instructor |-> i, faculty |-> f]) :
        r \in OptText(Texts), i \in OptText(SmallTexts), f \in OptText(SmallTexts)}
    \cup {Record([instructor |-> i, faculty |-> f]) :
        i \in OptText(SmallTexts), f \in OptText(Texts)}

\* records that vary the recurrence
Rrules ==
    {Absent, Str(<<"w">>)}
    \cup {Record([freq |-> f, interval |-> i, until |-> u]) :
            f \in {Absent, Str(<<>>), Str(<<"w", "e", "e", "k", "l", "y">>),
                   Str(<<"D", "a", "i", "l", "y">>)},
            i \in {Absent, Num(0), Num(1), Num(12), Str(<<"3">>), Str(<<"x">>)},
            u \in {Absent, Str(<<>>), Str(IsoDate(2025, 10, 6)), Str(AStamp),
                   Str(AStamp \o <<"Z">>),
                   Str(AStamp \o <<"+", "0", "5", ":", "3", "0">>),
                   Str(<<"x">>),
                   Str(IsoDate(2025, 10, 6) \o <<"Z">> \o IsoTime(9, 15, 0))}}
RruleRecords == {Record([start |-> Str(AStamp), rrule |-> r]) : r \in Rrules}

\* entries of the structural runs: two values that are no records, and
\* records that are empty, complete, and with a start no parser accepts
StructEntries ==
    { Str(<<"a">>), Num(7),
      Record([start |-> Absent]),
      Record([start |-> Str(AStamp), end |-> Str(AStamp \o <<"Z">>),
              title |-> Str(<<"a">>), group |-> Str(<<"W">>),
              room |-> Str(<<"a", ",">>), faculty |-> Str(<<"a">>),
              rrule |-> Record([freq |-> Str(<<"w">>)])]),
      Record([start |-> Str(<<"x">>)]) }

\* the key of the i-th entry of a JSON object: not in sorted order
DictKey(i) == <<"k">> \o Decimal(9 - i)

\* the sequences over S of length at most n
RECURSIVE SeqsUpTo(_, _)
SeqsUpTo(S, n) ==
    IF n = 0 THEN {<<>>}
    ELSE LET shorter == SeqsUpTo(S, n - 1)
         IN shorter \cup {Append(t, c) : t \in shorter, c \in S}

\* an input file holding the values vs, as a JSON array or a JSON object
FileOf(kind, vs) ==
    [kind |-> kind, entries |-> [i \in 1..Len(vs) |-> <<DictKey(i), vs[i]>>]]

DefaultArgs ==
    [input |-> <<"filtered_wydarzenia.json">>, output |-> <<"plan.ics">>,
     calendar_name |-> <<"Plan zajec">>, tz |-> "Europe/Warsaw", use_tzid |-> FALSE]

Zones == ValidZones \cup {"Mars/Phobos"}

\* the runs: on records that vary timestamps, text and recurrence, each
\* alone in its file; on files of every shape; from several paths and
\* working directories
RunInputs ==
    {[a |-> [DefaultArgs EXCEPT !.tz = z, !.use_tzid = u], c |-> <<"/home">>,
      f |-> FileOf("list", <<r>>)] :
        z \in Zones, u \in BOOLEAN, r \in TimeRecords}
    \cup
    {[a |-> [DefaultArgs EXCEPT !.use_tzid = u], c |-> <<"/home">>,
      f |-> FileOf("dict", <<r>>)] :
        u \in BOOLEAN, r \in TextRecords}
    \cup
    {[a |-> [DefaultArgs EXCEPT !.calendar_name = n], c |-> <<"/home">>,
      f |-> FileOf("list", <<Record([title |-> Str(n)])>>)] :
        n \in Texts}
    \cup
    {[a |-> [DefaultArgs EXCEPT !.tz = z, !.use_tzid = u], c |-> <<"/home">>,
      f |-> FileOf("dict", <<r>>)] :
        z \in {"Europe/Warsaw", "Asia/Tokyo"}, u \in BOOLEAN, r \in RruleRecords}
    \cup
    {[a |-> [DefaultArgs EXCEPT !.tz = z, !.use_tzid = u], c |-> <<"/home">>,
      f |-> FileOf(k, vs)] :
        z \in {"Europe/Warsaw", "Mars/Phobos"}, u \in BOOLEAN,
        k \in {"list", "dict"}, vs \in SeqsUpTo(StructEntries, MaxItems)}
    \cup
    {[a |-> [DefaultArgs EXCEPT !.input = i, !.output = o, !.use_tzid = u],
      c |-> c, f |-> FileOf("dict", vs)] :
        i \in {<<"in.json">>, <<"/", "srv/in.json">>},
        o \in {<<"plan.ics">>, <<"in.json">>},
        u \in BOOLEAN, c \in {<<"/home">>, <<"/srv">>},
        vs \in SeqsUpTo({Str(<<"a">>), Record([start |-> Absent])}, MaxItems)}
    \cup
    {[a |-> DefaultArgs, c |-> <<"/home">>, f |-> [kind |-> k, entries |-> <<>>]] :
        k \in {"missing", "malformed", "scalar"}}

IcsIdle ==
    /\ args = DefaultArgs /\ cwd = <<"/home">>
    /\ infile = [kind |-> "missing", entries |-> <<>>]
    /\ pc = "idle" /\ items = <<>> /\ idx = 0 /\ uid_namespace = <<>>
    /\ naive_tz = "UTC" /\ vtimezone = <<>> /\ events = <<>> /\ clock = 0
    /\ outfile = [written |-> FALSE, lines |-> <<>>] /\ writes = 0
    /\ stdout = -1 /\ stderr = <<>> /\ status = -1

FilterIdle ==
    /\ fargs = [url |-> FALSE, faculty |-> <<>>, lk |-> <<>>, l |-> <<>>, p |-> <<>>]
    /\ finfile = [kind |-> "missing", entries |-> <<>>]
    /\ fdata = <<>> /\ fpc = "idle" /\ fidx = 0 /\ filtered = <<>>
    /\ included_count = 0 /\ fsaved = [written |-> FALSE, entries |-> <<>>]
    /\ fstatus = -1

Init ==
    /\ \E r \in RunInputs : args = r.a /\ cwd = r.c /\ infile = r.f
    /\ pc = "start" /\ items = <<>> /\ idx = 0 /\ uid_namespace = <<>>
    /\ naive_tz = "UTC" /\ vtimezone = <<>> /\ events = <<>> /\ clock = 0
    /\ outfile = [written |-> FALSE, lines |-> <<>>] /\ writes = 0
    /\ stdout = -1 /\ stderr = <<>> /\ status = -1
    /\ FilterIdle

Spec == Init /\ [][Next]_vars

(***************************************************************************)
(* filter_events.main as a state machine.                                  *)
(***************************************************************************)
\* main, lines 112-114: no URL given and the input path does not exist
FInputNotFound ==
    /\ fpc = "start"
    /\ ~fargs.url /\ finfile.kind = "missing"
    /\ fstatus' = 1
    /\ fpc' = "exit"
    /\ UNCHANGED <<fargs, finfile, fdata, fidx, filtered, included_count, fsaved, icsVars>>

\* main, lines 108-118: fetching or parsing raises
FLoadFailed ==
    /\ fpc = "start"
    /\ \/ fargs.url /\ finfile.kind = "missing"
       \/ finfile.kind = "malformed"
    /\ fstatus' = 1
    /\ fpc' = "exit"
    /\ UNCHANGED <<fargs, finfile, fdata, fidx, filtered, included_count, fsaved, icsVars>>

\* main, lines 126-128: the JSON value is neither an array nor an object
FUnsupported ==
    /\ fpc = "start"
    /\ finfile.kind = "scalar"
    /\ fstatus' = 1
    /\ fpc' = "exit"
    /\ UNCHANGED <<fargs, finfile, fdata, fidx, filtered, included_count, fsaved, icsVars>>

\* main, lines 108-131: the events are loaded
FLoaded ==
    /\ fpc = "start"
    /\ finfile.kind \in {"list", "dict"}
    /\ fdata' = source_items(finfile)
    /\ filtered' = <<>>
    /\ included_count' = 0
    /\ fidx' = 1
    /\ fpc' = "loop"
    /\ UNCHANGED <<fargs, finfile, fsaved, fstatus, icsVars>>

\* main, lines 133-135: an entry that is no dict is skipped
FSkip ==
    /\ fpc = "loop"
    /\ fidx <= Len(fdata)
    /\ ~IsDict(fdata[fidx][2])
    /\ fidx' = fidx + 1
    /\ UNCHANGED <<fargs, finfile, fdata, fpc, filtered, included_count, fsaved,
                   fstatus, icsVars>>

Included(event) ==
    should_include_event(event, fargs.faculty, fargs.lk, fargs.l, fargs.p)

\* main, lines 136-138: the event is kept
FInclude ==
    /\ fpc = "loop"
    /\ fidx <= Len(fdata)
    /\ IsDict(fdata[fidx][2])
    /\ Included(fdata[fidx][2].d)
    /\ filtered' = Append(filtered, fdata[fidx])
    /\ included_count' = included_count + 1
    /\ fidx' = fidx + 1
    /\ UNCHANGED <<fargs, finfile, fdata, fpc, fsaved, fstatus, icsVars>>

\* main, line 136: the event is dropped
FExclude ==
    /\ fpc = "loop"
    /\ fidx <= Len(fdata)
    /\ IsDict(fdata[fidx][2])
    /\ ~Included(fdata[fidx][2].d)
    /\ fidx' = fidx + 1
    /\ UNCHANGED <<fargs, finfile, fdata, fpc, filtered, included_count, fsaved,
                   fstatus, icsVars>>

\* main, lines 140-148: the filtered mapping is saved
FSave ==
    /\ fpc = "loop"
    /\ fidx > Len(fdata)
    /\ fsaved' = [written |-> TRUE, entries |-> filtered]
    /\ fstatus' = 0
    /\ fpc' = "exit"
    /\ UNCHANGED <<fargs, finfile, fdata, fidx, filtered, included_count, icsVars>>

FNext ==
    \/ FInputNotFound
    \/ FLoadFailed
    \/ FUnsupported
    \/ FLoaded
    \/ FSkip
    \/ FInclude
    \/ FExclude
    \/ FSave

\* group strings: lecture and group codes, separators and blanks
GroupChars == {"W", "w", "L", "/", ",", " "}
Groups == StringsUpTo(GroupChars, MaxGroupLen)
Codes == {<<"L">>, <<"l">>, <<"P", "4">>, <<"W">>}
Faculties == {<<"F">>, <<"G">>}

FilterRecords ==
    {Record([faculty |-> f, group |-> g]) :
        f \in OptText(Faculties), g \in OptText(Groups)}

FilterInputs ==
    {[a |-> [url |-> FALSE, faculty |-> f, lk |-> c, l |-> <<"L", "3">>, p |-> <<"P", "4">>],
      f |-> FileOf("dict", <<r>>)] :
        f \in Faculties, c \in Codes, r \in FilterRecords}
    \cup
    {[a |-> [url |-> u, faculty |-> <<"F">>, lk |-> <<"L">>, l |-> <<"L", "3">>, p |-> <<"P", "4">>],
      f |-> FileOf(k, vs)] :
        u \in BOOLEAN, k \in {"list", "dict"},
        vs \in SeqsUpTo({Str(<<"a">>),
                         Record([faculty |-> Str(<<"F">>), group |-> Str(<<"W">>)]),
                         Record([faculty |-> Str(<<"F">>), group |-> Str(<<"P", "1">>)])},
                        MaxItems)}
    \cup
    {[a |-> [url |-> u, faculty |-> <<"F">>, lk |-> <<"L">>, l |-> <<"L", "3">>, p |-> <<"P", "4">>],
      f |-> [kind |-> k, entries |-> <<>>]] :
        u \in BOOLEAN, k \in {"missing", "malformed", "scalar"}}

FInit ==
    /\ \E r \in FilterInputs : fargs = r.a /\ finfile = r.f
    /\ fdata = <<>> /\ fpc = "start" /\ fidx = 0 /\ filtered = <<>>
    /\ included_count = 0 /\ fsaved = [written |-> FALSE, entries |-> <<>>]
    /\ fstatus = -1
    /\ IcsIdle

FilterSpec == FInit /\ [][FNext]_vars

(***************************************************************************)
(* Properties of json_to_ics.                                              *)
(***************************************************************************)
\* the positions below k of the entries of items that are records
RECURSIVE RecordPositions(_)
RecordPositions(k) ==
    IF k = 0 THEN <<>>
    ELSE RecordPositions(k - 1) \o (IF IsDict(items[k][2]) THEN <<k>> ELSE <<>>)

\* the lines of a block with the given name
LinesNamed(block, name) == SelectSeq(block, LAMBDA ln : ln.name = name)

\* a timestamp field that is set
IsSet(v) == Truthy(v) /\ v.ty = "str"
\* ... and that datetime.fromisoformat accepts, Z spelled +00:00
Parseable(v) == IsSet(v) /\ FromIso(ReplaceZ(v.s)).ok
Malformed(v) == IsSet(v) /\ ~FromIso(ReplaceZ(v.s)).ok
\* ... as a naive string, or with a Z or an offset
IsNaive(v) == Parseable(v) /\ FromIso(ReplaceZ(v.s)).dt.tzinfo.kind = "none"
IsAware(v) == Parseable(v) /\ FromIso(ReplaceZ(v.s)).dt.tzinfo.kind = "fixed"

\* the run is over
Exited == pc = "exit"
\* the input was loaded and every entry has been looked at or the run is over
InputLoaded == infile.kind \in {"list", "dict"} /\ pc \in {"loop", "exit"}

\* C1: a record whose start or end is set but is no timestamp loses only
\* that line: its block is still emitted with UID, DTSTAMP, SUMMARY and the
\* other timestamp, every other record is processed, and the run writes the
\* document and returns 0.  (Runs whose recurrence rules all build.)
C1_MalformedTimestampOnlyDropsField ==
    (/\ Exited /\ InputLoaded
     /\ \A i \in 1..Len(items) :
            IsDict(items[i][2]) => ~build_rrule(items[i][2].d, naive_tz).raised)
    => /\ status = 0
       /\ outfile.written
       /\ Len(events) = Len(RecordPositions(Len(items)))
       /\ \A j \in 1..Len(events) :
            LET e == items[RecordPositions(Len(items))[j]][2].d
                startLines == LinesNamed(events[j], "DTSTART")
                endLines == LinesNamed(events[j], "DTEND")
            IN /\ Len(LinesNamed(events[j], "UID")) = 1
               /\ Len(LinesNamed(events[j], "DTSTAMP")) = 1
               /\ Len(LinesNamed(events[j], "SUMMARY")) = 1
               /\ Len(startLines) = (IF Parseable(Get(e, "start")) THEN 1 ELSE 0)
               /\ Len(endLines) = (IF Parseable(Get(e, "end")) THEN 1 ELSE 0)

\* the run would abort on its input: the file is missing, is no JSON, holds
\* neither an object nor an array, or build_event raises on a record
FatalInput ==
    \/ infile.kind \in {"missing", "malformed", "scalar"}
    \/ \E i \in 1..Len(infile.entries) :
        /\ IsDict(infile.entries[i][2])
        /\ build_event(<<>>, <<>>, infile.entries[i][2].d, ZoneOrUtc(args.tz),
                       args.use_tzid, <<args.tz>>, 0).raised

\* C2: the output file is written at most once, as one complete document,
\* after every entry was processed; a run that ends in a fatal condition has
\* written nothing and exits with a status other than 0.
C2_WrittenOnceAtTheEnd ==
    /\ writes <= 1
    /\ outfile.written <=> writes = 1
    /\ outfile.written =>
        /\ Exited /\ status = 0
        /\ idx = Len(items) + 1
        /\ ~FatalInput
        /\ Len(events) = Len(RecordPositions(Len(items)))
        /\ outfile.lines[1] = Line("BEGIN", <<"VCALENDAR">>)
        /\ outfile.lines[Len(outfile.lines)] = Line("END", <<"VCALENDAR">>)
        /\ \A j \in 1..Len(events) : \E at \in 1..Len(outfile.lines) :
             SubSeq(outfile.lines, at, at + Len(events[j]) - 1) = events[j]
    /\ (Exited /\ FatalInput) => (writes = 0 /\ ~outfile.written /\ status > 0)

\* C2, the case: the run aborts after a block was built; nothing is written
C2_WitnessAbortAfterABlock ==
    Exited /\ status = 1 /\ Len(events) >= 1 /\ ~outfile.written /\ writes = 0

\* the wall clock, in the fallback zone, of the instant a timestamp string
\* names (a naive string is read in the fallback zone)
WallClockInZone(v, zone) ==
    Strftime(AsZone(AsUtc(WithZone(FromIso(ReplaceZ(v.s)).dt, zone)), zone))

\* C3, for the inputs that carry a Z or an offset: in local mode the value
\* on DTSTART is the wall clock of the instant in the fallback zone, without
\* a trailing Z, and its TZID parameter is the zone identifier.
C3_AwareInputRenderedInFallbackZone ==
    (InputLoaded /\ args.use_tzid /\ args.tz \in ValidZones) =>
        \A j \in 1..Len(events) :
            LET e == items[RecordPositions(idx - 1)[j]][2].d
                startLines == LinesNamed(events[j], "DTSTART")
            IN IsAware(Get(e, "start")) =>
                /\ Len(startLines) = 1
                /\ startLines[1].param = <<args.tz>>
                /\ startLines[1].value = WallClockInZone(Get(e, "start"), naive_tz)

\* the datetime spelled by a rendering YYYYMMDDTHHMMSSZ, in UTC
FromBasicZ(r) ==
    DateTime(DigitsVal(r, 1, 4), DigitsVal(r, 5, 6), DigitsVal(r, 7, 8),
             DigitsVal(r, 10, 11), DigitsVal(r, 12, 13), DigitsVal(r, 14, 15), UtcTz)

\* the local-mode rendering of a naive timestamp equals its UTC-mode
\* rendering converted back to the wall clock of the zone
RoundTrips(v, zone) ==
    parse_iso_with_tzid(v.s, zone, <<zone>>).val.value
        = Strftime(AsZone(FromBasicZ(parse_iso_as_utc_z(v.s, zone).val), zone))

\* the UTC offsets a zone uses
ZoneOffsets(zone) ==
    CASE zone = "Europe/Warsaw" -> {60, 120}
      [] zone = "Asia/Tokyo" -> {540}
      [] OTHER -> {0}

\* the wall clock of a naive timestamp exists in the zone: some instant has
\* it (it does not fall in the hour a daylight-saving start skips)
ExistsInZone(v, zone) ==
    LET dt == FromIso(v.s).dt
    IN \E off \in ZoneOffsets(zone) :
        ZoneOffsetAtUtc(zone, WallMinutes(dt) - off, dt.y) = off

\* ... and two instants have it (the hour a daylight-saving end repeats)
RepeatsInZone(v, zone) ==
    LET dt == FromIso(v.s).dt
    IN \A off \in ZoneOffsets(zone) :
        ZoneOffsetAtUtc(zone, WallMinutes(dt) - off, dt.y) = off

\* the start of the record behind the j-th block built
StartOf(j) == Get(items[RecordPositions(idx - 1)[j]][2].d, "start")

\* C4 as stated: for every valid zone and every naive timestamp, wall clocks
\* in a daylight-saving gap or overlap included, the two renderings agree.
C4_RoundTripEveryNaiveTimestamp ==
    (InputLoaded /\ args.tz \in ValidZones) =>
        \A j \in 1..Len(events) : IsNaive(StartOf(j)) => RoundTrips(StartOf(j), naive_tz)

\* C4, amended: for every valid zone and every naive timestamp whose wall
\* clock exists in the zone (overlaps included, gaps not), the local-mode
\* rendering equals the UTC-mode rendering converted back to the zone.
C4_RoundTripExistingWallClock ==
    (InputLoaded /\ args.tz \in ValidZones) =>
        \A j \in 1..Len(events) :
            (IsNaive(StartOf(j)) /\ ExistsInZone(StartOf(j), naive_tz))
                => RoundTrips(StartOf(j), naive_tz)

\* C4, the case: a block was built from a naive start in the repeated hour
\* of Europe/Warsaw
C4_WitnessOverlap ==
    /\ InputLoaded /\ args.tz = "Europe/Warsaw" /\ Len(events) >= 1
    /\ IsNaive(StartOf(1))
    /\ RepeatsInZone(StartOf(1), naive_tz) /\ Cardinality(ZoneOffsets(naive_tz)) = 2

\* the sub-record has string-or-absent freq and a numeric-or-absent interval
WellTypedRule(r) ==
    /\ Get(r, "freq").ty \in {"none", "str"}
    /\ Get(r, "interval").ty \in {"none", "num"}
    /\ Get(r, "until").ty \in {"none", "str"}

\* what C5 says build_rrule returns for a record
RruleAsClaimed(e, zone) ==
    LET r == Get(e, "rrule")
        b == build_rrule(e, zone)
        nonePresent == /\ ~Truthy(Get(r.d, "freq"))
                       /\ ~Truthy(Get(r.d, "interval"))
                       /\ ~Truthy(Get(r.d, "until"))
    IN /\ ~b.raised
       /\ (~IsDict(r) \/ nonePresent) <=> b.val = <<>>
       /\ b.val # <<>> =>
            LET rule == b.val[1]
                parts == Split(rule, ";")
                keys == [i \in 1..Len(parts) |-> parts[i][1]]
            IN /\ rule # <<>>
               /\ \A i \in 1..Len(parts) : parts[i] # <<>>
               /\ keys = (IF Truthy(Get(r.d, "freq")) THEN <<"FREQ=">> ELSE <<>>)
                         \o (IF Truthy(Get(r.d, "interval")) THEN <<"INTERVAL=">> ELSE <<>>)
                         \o (IF Truthy(Get(r.d, "until")) THEN <<"UNTIL=">> ELSE <<>>)
               /\ \A i \in 1..Len(parts) :
                    /\ keys[i] = "FREQ=" => Tail(parts[i]) = Upper(Get(r.d, "freq").s)
                    /\ keys[i] = "UNTIL=" => parts[i][Len(parts[i])] = "Z"

\* C5: for every record build_rrule returns null without a recurrence
\* sub-record or when freq, interval and until are all missing, and else one
\* string FREQ=..;INTERVAL=..;UNTIL=.. of the components present, in that
\* order, UNTIL ending in Z.  (Records the loop has reached, whose freq,
\* interval and until have the types the data model gives them.)
C5_RruleReturnedForEveryRecord ==
    InputLoaded =>
        \A i \in 1..Len(items) :
            (/\ i < idx \/ (i = idx /\ Exited)
             /\ IsDict(items[i][2])
             /\ IsDict(Get(items[i][2].d, "rrule")) =>
                    WellTypedRule(Get(items[i][2].d, "rrule").d))
            => RruleAsClaimed(items[i][2].d, naive_tz)

\* the escape of one character
EscapeChar(c) ==
    CASE c = "\\" -> <<"\\", "\\">>
      [] c = ";" -> <<"\\", ";">>
      [] c = "," -> <<"\\", ",">>
      [] c = "\n" -> <<"\\", "n">>
      [] OTHER -> <<c>>

\* a text with each of its characters escaped, once
RECURSIVE EscapedOnce(_)
EscapedOnce(t) == IF t = <<>> THEN <<>> ELSE EscapeChar(Head(t)) \o EscapedOnce(Tail(t))

\* the free text of a record as build_event puts it together
SummaryOf(e) ==
    (IF Truthy(Get(e, "eventType")) THEN Get(e, "eventType").s
     ELSE IF Truthy(Get(e, "title")) THEN Get(e, "title").s ELSE <<"Zajecia">>)
    \o <<" (">> \o (IF Truthy(Get(e, "group")) THEN Get(e, "group").s ELSE <<>>)
    \o <<")">>
DescriptionOf(e) ==
    LET i == Get(e, "instructor")
        f == Get(e, "faculty")
    IN (IF Truthy(i) THEN <<"Prowadzacy: ">> \o i.s ELSE <<>>)
       \o (IF Truthy(i) /\ Truthy(f) THEN <<"\n">> ELSE <<>>)
       \o (IF Truthy(f) THEN <<"Faculty: ">> \o f.s ELSE <<>>)

\* the record behind the j-th block built
RecordOf(j) == items[RecordPositions(idx - 1)[j]][2].d

\* C6: the text on SUMMARY, LOCATION, DESCRIPTION, X-WR-CALNAME and NAME is
\* the underlying value with every character escaped exactly once: a
\* backslash doubled, a semicolon, a comma and a newline behind a backslash;
\* a backslash followed by a comma comes out as three backslashes and a comma.
C6_FreeTextEscapedExactlyOnce ==
    /\ InputLoaded =>
        \A j \in 1..Len(events) :
            LET e == RecordOf(j)
                loc == LinesNamed(events[j], "LOCATION")
                desc == LinesNamed(events[j], "DESCRIPTION")
            IN /\ LinesNamed(events[j], "SUMMARY")
                    = <<Line("SUMMARY", EscapedOnce(SummaryOf(e)))>>
               /\ loc # <<>> => loc = <<Line("LOCATION", EscapedOnce(Get(e, "room").s))>>
               /\ desc # <<>> => desc = <<Line("DESCRIPTION", EscapedOnce(DescriptionOf(e)))>>
               /\ Get(e, "room") = Str(<<"\\", ",">>)
                    => loc = <<Line("LOCATION", <<"\\", "\\", "\\", ",">>)>>
    /\ outfile.written =>
        /\ outfile.lines[6] = Line("X-WR-CALNAME", EscapedOnce(args.calendar_name))
        /\ outfile.lines[7] = Line("NAME", EscapedOnce(args.calendar_name))

\* C6, the case: a document was written whose LOCATION comes from a room
\* spelled backslash, comma
C6_WitnessBackslashComma ==
    /\ outfile.written /\ Len(events) >= 1
    /\ Get(RecordOf(1), "room") = Str(<<"\\", ",">>)
    /\ LinesNamed(events[1], "LOCATION") # <<>>

\* the positions of the lines of a document equal to ln
PositionsOf(lines, ln) == {i \in 1..Len(lines) : lines[i] = ln}

\* the names of the lines of a sequence of lines
Names(lines) == [i \in 1..Len(lines) |-> lines[i].name]

\* the key of the j-th record of the input file, in the order of the file;
\* the entries of an array are keyed by their position, counted from 0
RECURSIVE FileRecordPositions(_)
FileRecordPositions(k) ==
    IF k = 0 THEN <<>>
    ELSE FileRecordPositions(k - 1)
         \o (IF IsDict(infile.entries[k][2]) THEN <<k>> ELSE <<>>)
FileRecordKey(j) ==
    LET at == FileRecordPositions(Len(infile.entries))[j]
    IN IF infile.kind = "list" THEN Decimal(at - 1) ELSE infile.entries[at][1]

\* C7: the written document is the seven header lines, then one VTIMEZONE
\* block exactly in local mode, right after the header and before every
\* VEVENT, then one VEVENT block per entry that is a record, in the order of
\* the input, then END:VCALENDAR; entries that are no records give no block,
\* are not counted in the total printed and never end the run.
C7_DocumentLayout ==
    /\ outfile.written =>
        LET L == outfile.lines
            n == Len(FileRecordPositions(Len(infile.entries)))
            begins == PositionsOf(L, Line("BEGIN", <<"VEVENT">>))
            ends == PositionsOf(L, Line("END", <<"VEVENT">>))
            tzBegins == PositionsOf(L, Line("BEGIN", <<"VTIMEZONE">>))
            tzEnds == PositionsOf(L, Line("END", <<"VTIMEZONE">>))
            uids == SelectSeq(L, LAMBDA ln : ln.name = "UID")
        IN /\ Names(SubSeq(L, 1, 7)) = <<"BEGIN", "VERSION", "PRODID", "CALSCALE",
                                         "METHOD", "X-WR-CALNAME", "NAME">>
           /\ L[1] = Line("BEGIN", <<"VCALENDAR">>)
           /\ PositionsOf(L, Line("END", <<"VCALENDAR">>)) = {Len(L)}
           /\ Cardinality(tzBegins) = (IF args.use_tzid THEN 1 ELSE 0)
           /\ Cardinality(tzEnds) = Cardinality(tzBegins)
           /\ args.use_tzid =>
                /\ tzBegins = {8}
                /\ \A t \in tzEnds : \A b \in begins : t < b
                /\ \A t \in tzEnds : \A i \in 8..t :
                     L[i].name \notin {"UID", "SUMMARY", "DTSTAMP"}
           /\ Cardinality(begins) = n
           /\ Cardinality(ends) = n
           /\ Len(uids) = n
           /\ stdout = n
           /\ \A j \in 1..n : uids[j].value = FileRecordKey(j) \o <<"@">> \o uid_namespace
           /\ \A b \in begins : \E e \in ends :
                /\ b < e
                /\ \A i \in (b + 1)..(e - 1) : L[i].name \notin {"BEGIN", "END"}
           /\ Len(L) = 7 + (IF args.use_tzid THEN Len(vtimezone) ELSE 0)
                         + Len(Flatten(events)) + 1
    /\ \A i \in 1..Len(items) : (i < idx /\ ~IsDict(items[i][2])) =>
            /\ Len(events) = Len(RecordPositions(idx - 1))
            /\ Len(events) < idx
    /\ (Exited /\ InputLoaded /\ status # 0) => IsDict(items[idx][2])

\* C7, the case: a document written in local mode from an input that holds
\* an entry that is no record before a record
C7_WitnessLocalModeWithSkippedEntry ==
    /\ outfile.written /\ args.use_tzid
    /\ Len(items) = 2 /\ ~IsDict(items[1][2]) /\ IsDict(items[2][2])
    /\ Len(events) = 1

\* the order of the properties of an event block
PropertyOrder == <<"UID", "DTSTAMP", "DTSTART", "DTEND", "SUMMARY", "LOCATION",
                   "DESCRIPTION", "RRULE">>
PropertyRank(name) == CHOOSE i \in 1..Len(PropertyOrder) : PropertyOrder[i] = name

\* C8: a block starts with BEGIN:VEVENT, ends with END:VEVENT and lists
\* UID, DTSTAMP, DTSTART, DTEND, SUMMARY, LOCATION, DESCRIPTION, RRULE in that
\* order, each at most once; UID, DTSTAMP and SUMMARY are always there, the
\* SUMMARY being title-or-default, " (", group, ")"; LOCATION and DESCRIPTION
\* are left out when their values are empty or absent.
C8_EventBlockShape ==
    InputLoaded =>
        \A j \in 1..Len(events) :
            LET b == events[j]
                e == RecordOf(j)
                inner == SubSeq(b, 2, Len(b) - 1)
                summary == LinesNamed(b, "SUMMARY")
            IN /\ Len(b) >= 5
               /\ b[1] = Line("BEGIN", <<"VEVENT">>)
               /\ b[Len(b)] = Line("END", <<"VEVENT">>)
               /\ \A i \in 1..Len(inner) : \E r \in 1..Len(PropertyOrder) :
                    inner[i].name = PropertyOrder[r]
               /\ \A i \in 1..(Len(inner) - 1) :
                    PropertyRank(inner[i].name) < PropertyRank(inner[i + 1].name)
               /\ Len(LinesNamed(b, "UID")) = 1
               /\ Len(LinesNamed(b, "DTSTAMP")) = 1
               /\ Len(summary) = 1
               /\ summary[1].value = escape_text(SummaryOf(e))
               /\ ~Truthy(Get(e, "group")) =>
                    /\ summary[1].value[Len(summary[1].value)] = ")"
                    /\ summary[1].value[Len(summary[1].value) - 1] = " ("
               /\ Len(LinesNamed(b, "LOCATION")) = (IF Truthy(Get(e, "room")) THEN 1 ELSE 0)
               /\ Len(LinesNamed(b, "DESCRIPTION"))
                    = (IF Truthy(Get(e, "instructor")) \/ Truthy(Get(e, "faculty"))
                       THEN 1 ELSE 0)

\* C8, the case: a block that carries all eight properties
C8_WitnessFullBlock ==
    /\ InputLoaded /\ Len(events) >= 1
    /\ Names(events[1]) = <<"BEGIN">> \o PropertyOrder \o <<"END">>

HasLectureToken(v) ==
    /\ v.ty = "str"
    /\ LET parts == Split(Replace(v.s, ",", <<"/">>), "/")
       IN \E i \in 1..Len(parts) : Strip(parts[i]) \in {<<"W">>, <<"w">>}

\* the entry is among the pairs kept
Kept(entry, kept) == \E i \in 1..Len(kept) : kept[i] = entry

====
